---- MODULE Spec2Model ----
(***************************************************************************)
(* pykv: the asynchronous key-value store (app/async_store.py) on top of   *)
(* the LRU cache with TTL (app/async_lru.py).                              *)
(*                                                                         *)
(* The program runs on one asyncio event loop: a coroutine runs without    *)
(* interruption until it awaits something that really suspends it.  Those  *)
(* places are an asyncio.Lock that is held (a free lock is taken without   *)
(* suspending), the aiofiles calls (open, write, close, read run in a      *)
(* thread pool) and asyncio.sleep.  Every action below is the code between *)
(* two such places.                                                        *)
(*                                                                         *)
(* Time is counted in ticks, TicksPerSec to the second, so that a          *)
(* remaining TTL under one second exists.  Strings (keys, namespaces) are  *)
(* sequences of characters, so that ':' can be looked for in them.         *)
(* AsyncNode.access_time and stats["start_time"] are written but never     *)
(* read by the store and are left out.                                     *)
(***************************************************************************)
EXTENDS Integers, Sequences, FiniteSets, TLC

\* ------------------------------------------------------------- bounds
Capacity    == 2    \* AsyncLRUCache.capacity of the store under test
TicksPerSec == 2    \* clock resolution
MaxTime     == 3    \* the clock stops here
MaxOps      == 3    \* calls (and restarts) issued in one run
MaxWal      == 3    \* lines of a WAL found at the start of a run

\* ------------------------------------------------------------- values
None   == -1                \* Python None where a number may stand
NoVal  == "None"            \* Python None where a str value may stand
NoNs   == <<"None">>        \* Python None where a namespace may stand
NoFile == [exists |-> FALSE, recs |-> <<>>]    \* a path at which no file exists
File(recs) == [exists |-> TRUE, recs |-> recs]
NoTask == "nobody"          \* holder of a free lock

HEAD == <<"head">>          \* sentinel nodes of AsyncDoublyLinkedList
TAIL == <<"tail">>

UserKeys   == {<<"b">>, <<"a", ":", "b">>}
Namespaces == {NoNs, <<"a">>}
AllNamespaces == Namespaces \cup {<<"a", ":", "c">>}   \* and one that contains ':'
Values     == {"v1", "v2"}
Ttls       == {None, 0, 1}

PlainKeys  == {<<"a">>, <<"b">>, <<"c">>}

Clients == {"c1", "c2"}
Tasks   == Clients \cup {"main", "compactor"}

VARIABLES
    now,         \* time.time(), in ticks
    phase,       \* "recovering": initialize() runs; "recovered": it returned;
                 \* "running": requests are served; "stopped": shutdown()
                 \* returned; "failed": initialize() raised

    cache,       \* AsyncLRUCache.cache: the dict, as the sequence of its nodes in
                 \* insertion order
    nxt, prv,    \* AsyncNode.next / AsyncNode.prev of the linked nodes
    facadeLock,  \* AsyncKeyValueStore.lock: the task holding it
    cacheLock,   \* AsyncLRUCache.lock
    dllLock,     \* AsyncDoublyLinkedList.lock
    pc, local,   \* per task: where it is suspended, and its local variables
    wal,         \* the file at log_file: File(its records) or NoFile
    tmp,         \* the file at log_file + ".tmp" or NoFile
    stats,       \* AsyncKeyValueStore.stats; last_compaction is NoVal or "set"
    nsStats,     \* AsyncKeyValueStore.namespace_stats
    res,         \* per task: the result of its last completed call
    expect,      \* history: per (namespace, key), what the last set/delete promises
    snap,        \* history: the live unexpired entries at the last shutdown
    lastCompact, \* history: the WAL the last compaction left, while nothing ran since
    ops          \* history: the calls issued so far

vars == <<now, phase, cache, nxt, prv, facadeLock, cacheLock, dllLock, pc, local,
          wal, tmp, stats, nsStats, res, expect, snap, lastCompact, ops>>

\* ------------------------------------------------------------- helpers
Range(s) == {s[i] : i \in 1..Len(s)}

Truthy(x) == x # None /\ x # 0              \* `if ttl` on an Optional number

StartsWith(s, p) == Len(s) >= Len(p) /\ SubSeq(s, 1, Len(p)) = p

NsTruthy(ns) == ns # NoNs /\ ns # <<>>      \* `if namespace`

make_namespaced_key(ns, key) ==
    IF NsTruthy(ns) THEN ns \o <<":">> \o key ELSE key

parse_namespaced_key(fk) ==
    IF ":" \in Range(fk)
    THEN LET i == CHOOSE j \in 1..Len(fk) :
                      fk[j] = ":" /\ \A m \in 1..(j - 1) : fk[m] # ":"
         IN  <<SubSeq(fk, 1, i - 1), SubSeq(fk, i + 1, Len(fk))>>
    ELSE <<NoNs, fk>>

Label(ns) == IF NsTruthy(ns) THEN ns ELSE <<"default">>   \* namespace or "default"

Secs(ttl) == IF ttl = None THEN None ELSE ttl * TicksPerSec

\* ------------------------------------------------------------- the dict
Keys(d) == {d[i].key : i \in 1..Len(d)}

NodeOf(d, k) == d[CHOOSE i \in 1..Len(d) : d[i].key = k]

DictSet(d, node) ==
    IF node.key \in Keys(d)
    THEN LET i == CHOOSE j \in 1..Len(d) : d[j].key = node.key
         IN  SubSeq(d, 1, i - 1) \o <<node>> \o SubSeq(d, i + 1, Len(d))
    ELSE Append(d, node)

DictDel(d, k) == SelectSeq(d, LAMBDA e : e.key # k)

\* ------------------------------------------------------------- the list
\* A cache state L is [d |-> dict, nxt |-> next pointers, prv |-> prev pointers].
EmptyCache == [d |-> <<>>, nxt |-> (HEAD :> TAIL), prv |-> (TAIL :> HEAD)]

add_to_front(L, n) ==
    LET first == L.nxt[HEAD]
    IN  [L EXCEPT !.nxt = (n :> first) @@ [L.nxt EXCEPT ![HEAD] = n],
                  !.prv = (n :> HEAD) @@ [L.prv EXCEPT ![first] = n]]

remove_node(L, n) ==
    LET p == L.prv[n]
        x == L.nxt[n]
    IN  [L EXCEPT !.nxt = [L.nxt EXCEPT ![p] = x],
                  !.prv = [L.prv EXCEPT ![x] = p]]

move_to_front(L, n) == add_to_front(remove_node(L, n), n)

\* A node that is neither in the dict nor on the list is garbage.
Forget(L, n) ==
    [L EXCEPT !.nxt = [m \in DOMAIN L.nxt \ {n} |-> L.nxt[m]],
              !.prv = [m \in DOMAIN L.prv \ {n} |-> L.prv[m]]]

ListEmpty(L) == L.prv[TAIL] = HEAD          \* self.tail.prev == self.head

\* ------------------------------------------------------------- the cache
\* A node is [key, value, expires_at] plus two history fields: ttl, the TTL its
\* last writer asked for (seconds, None for none), and setAt, the instant that
\* TTL counts from (None when ttl is None).
ExpiresAt(ttl) == IF Truthy(ttl) THEN now + ttl ELSE None

NewNode(key, value, ttl, g) ==
    [key |-> key, value |-> value, expires_at |-> ExpiresAt(ttl),
     ttl |-> g.ttl, setAt |-> g.setAt]

is_expired(node) == node.expires_at # None /\ now > node.expires_at

\* a removal that takes the key out of the dict and leaves the node on the list
remove_from_dict_only(L, key) == [L EXCEPT !.d = DictDel(L.d, key)]

remove_node_internal(L, key) ==
    LET M == Forget(remove_node(L, key), key)
    IN  [M EXCEPT !.d = DictDel(L.d, key)]

NeedsEvictStrict(L) == Len(L.d) > Capacity

NeedsEvict(L) == Len(L.d) >= Capacity       \* len(self.cache) >= self.capacity

\* put reaches remove_from_end with a node on the list: remove_from_end takes
\* the list lock and, holding it, awaits remove_node, which takes it again.
PutBlocks(L, key) == key \notin Keys(L.d) /\ NeedsEvict(L) /\ ~ListEmpty(L)

\* a put that leaves the expiry of an entry it overwrites as it was
CachePutKeepExpiry(L, key, value, ttl, g) ==
    IF key \in Keys(L.d)
    THEN move_to_front([L EXCEPT !.d = DictSet(L.d,
                            [NewNode(key, value, ttl, g) EXCEPT
                                !.expires_at = NodeOf(L.d, key).expires_at])], key)
    ELSE [add_to_front(L, key) EXCEPT !.d = Append(L.d, NewNode(key, value, ttl, g))]

\* put on every path that does not block
CachePut(L, key, value, ttl, g) ==
    IF key \in Keys(L.d)
    THEN move_to_front([L EXCEPT !.d = DictSet(L.d, NewNode(key, value, ttl, g))], key)
    ELSE [add_to_front(L, key) EXCEPT !.d = Append(L.d, NewNode(key, value, ttl, g))]

\* a get that reports an expired entry absent and leaves it in the cache
CacheGetKeepExpired(L, key) ==
    IF key \notin Keys(L.d) \/ is_expired(NodeOf(L.d, key))
    THEN [L |-> L, val |-> NoVal]
    ELSE [L |-> move_to_front(L, key), val |-> NodeOf(L.d, key).value]

\* get: [L |-> the cache afterwards, val |-> the value returned]
CacheGet(L, key) ==
    IF key \notin Keys(L.d)
    THEN [L |-> L, val |-> NoVal]
    ELSE IF is_expired(NodeOf(L.d, key))
         THEN [L |-> remove_node_internal(L, key), val |-> NoVal]
         ELSE [L |-> move_to_front(L, key), val |-> NodeOf(L.d, key).value]

\* a peek that takes out every entry that has an expiry, due or not
CacheGetRawDropTimed(L, key) ==
    IF key \notin Keys(L.d)
    THEN [L |-> L, val |-> NoVal]
    ELSE IF Truthy(NodeOf(L.d, key).expires_at)
         THEN [L |-> remove_node_internal(L, key), val |-> NoVal]
         ELSE [L |-> L, val |-> NodeOf(L.d, key).value]

\* get_raw: the same without the move to the front
CacheGetRaw(L, key) ==
    IF key \notin Keys(L.d)
    THEN [L |-> L, val |-> NoVal]
    ELSE IF is_expired(NodeOf(L.d, key))
         THEN [L |-> remove_node_internal(L, key), val |-> NoVal]
         ELSE [L |-> L, val |-> NodeOf(L.d, key).value]

\* delete: the cache afterwards (the result is key \in Keys(L.d) beforehand)
CacheDelete(L, key) ==
    IF key \notin Keys(L.d) THEN L ELSE remove_node_internal(L, key)

\* size(namespace) of the store
StoreSize(L, ns) ==
    IF ns = NoNs
    THEN Len(L.d)
    ELSE Cardinality({i \in 1..Len(L.d) : StartsWith(L.d[i].key, ns \o <<":">>)})

Cur == [d |-> cache, nxt |-> nxt, prv |-> prv]

SetCache(L) == cache' = L.d /\ nxt' = L.nxt /\ prv' = L.prv

\* ------------------------------------------------------------- records
IdleL == [op |-> "none"]
NoRes == [op |-> "none"]

Unknown  == [val |-> "unknown", due |-> None]
Promised(v, ttl) ==
    [val |-> v, due |-> IF ttl = None THEN None ELSE now + ttl * TicksPerSec]
Absent   == [val |-> NoVal, due |-> None]

\* what the last set/delete on the pair p promises a get issued now
Expected(p) ==
    LET e == expect[p]
    IN  IF e.val = "unknown" \/ e.val = NoVal THEN e.val
        ELSE IF e.due = None \/ now <= e.due THEN e.val ELSE "unknown"

NoSnap    == [valid |-> FALSE]
NoCompact == [valid |-> FALSE]

\* A record's timestamp is read by _recover only on a SET with a ttl; it is
\* kept on the records that carry a ttl and is None on every other record.
Stamp(ttl) == IF ttl # None THEN now ELSE None

\* _log_operation builds this record before it opens the file
LogEntry(action, key, value, ttl, ns) ==
    [timestamp |-> Stamp(ttl), action |-> action, key |-> key, value |-> value,
     ttl |-> ttl, namespace |-> ns]

\* lines that _log_operation never writes, as another program or a damaged disk
\* leaves them in the file
TextLine    == [text |-> "garbage"]                      \* json.loads raises JSONDecodeError
NumberLine  == [number |-> "123"]                        \* json.loads returns an int
NoKeyLine   == [action |-> "SET", value |-> "v1"]        \* an object without "key"
NoStampLine == [action |-> "SET", key |-> <<"b">>, value |-> "v1", ttl |-> 1,
                namespace |-> NoNs]                      \* a ttl and no "timestamp"

MalformedLines == {TextLine, NumberLine, NoKeyLine, NoStampLine}

\* json.loads(line) raises JSONDecodeError
NotJson(e) == "text" \in DOMAIN e

\* json.loads(line) returns a value that is not a dict: entry["action"] raises TypeError
NotObject(e) == "number" \in DOMAIN e

\* entry["action"], entry["key"] or entry["timestamp"] raises KeyError
LacksField(e) ==
    \/ "action" \notin DOMAIN e
    \/ "key" \notin DOMAIN e
    \/ /\ e.action = "SET"
       /\ "ttl" \in DOMAIN e /\ Truthy(e.ttl)
       /\ "timestamp" \notin DOMAIN e

\* an initialization that does not look whether the bucket is there already
init_namespace_stats_anew(st, ns) ==
    (Label(ns) :> [cache_hits |-> 0, cache_misses |-> 0, total_keys |-> 0]) @@ st

init_namespace_stats(st, ns) ==
    IF Label(ns) \in DOMAIN st
    THEN st
    ELSE (Label(ns) :> [cache_hits |-> 0, cache_misses |-> 0, total_keys |-> 0]) @@ st

WalLen == Len(wal.recs)

Call   == ops < MaxOps /\ ops' = ops + 1
NoCall == ops' = ops

\* ------------------------------------------------------------- Init
Init ==
    /\ now = 0
    /\ phase = "recovering"
    /\ cache = <<>>
    /\ nxt = (HEAD :> TAIL)
    /\ prv = (TAIL :> HEAD)
    /\ facadeLock = NoTask
    /\ cacheLock = NoTask
    /\ dllLock = NoTask
    /\ pc = [t \in Tasks |-> IF t = "main" THEN "recover" ELSE "idle"]
    /\ local = [t \in Tasks |-> IF t = "main" THEN [op |-> "recover", idx |-> 1] ELSE IdleL]
    /\ wal = NoFile
    /\ tmp = NoFile
    /\ stats = [cache_hits |-> 0, cache_misses |-> 0, evictions |-> 0,
                log_size |-> 0, last_compaction |-> NoVal]
    /\ nsStats = <<>>
    /\ res = [t \in Tasks |-> NoRes]
    /\ expect = [p \in AllNamespaces \X (UserKeys \cup PlainKeys) |-> Unknown]
    /\ snap = NoSnap
    /\ lastCompact = NoCompact
    /\ ops = 0

\* The WALs of SET records without TTL, of up to MaxWal lines, that an earlier
\* run may have left at log_file.  A run of capacity 2 leaves three live keys
\* there when a DEL of clear_namespace goes to the file that compact_log has
\* renamed away, and so does a run that had a larger capacity.
SetLines == {[timestamp |-> None, action |-> "SET", key |-> k, value |-> "v1",
              ttl |-> None, namespace |-> NoNs] : k \in PlainKeys}

FoundWals ==
    UNION {[1..n -> SetLines] : n \in 0..MaxWal}

\* the start of a process that finds a WAL
InitFound ==
    /\ now = 0
    /\ phase = "recovering"
    /\ cache = <<>>
    /\ nxt = (HEAD :> TAIL)
    /\ prv = (TAIL :> HEAD)
    /\ facadeLock = NoTask
    /\ cacheLock = NoTask
    /\ dllLock = NoTask
    /\ pc = [t \in Tasks |-> IF t = "main" THEN "recover" ELSE "idle"]
    /\ local = [t \in Tasks |-> IF t = "main" THEN [op |-> "recover", idx |-> 1] ELSE IdleL]
    /\ wal \in {File(w) : w \in FoundWals}
    /\ tmp = NoFile
    /\ stats = [cache_hits |-> 0, cache_misses |-> 0, evictions |-> 0,
                log_size |-> 0, last_compaction |-> NoVal]
    /\ nsStats = <<>>
    /\ res = [t \in Tasks |-> NoRes]
    /\ expect = [p \in AllNamespaces \X (UserKeys \cup PlainKeys) |-> Unknown]
    /\ snap = NoSnap
    /\ lastCompact = NoCompact
    /\ ops = 0

\* ------------------------------------------------------------- the clock
Tick ==
    /\ NoCall
    /\ now < MaxTime
    /\ now' = now + 1
    /\ UNCHANGED <<phase, cache, nxt, prv, facadeLock, cacheLock, dllLock, pc, local,
                   wal, tmp, stats, nsStats, res, expect, snap, lastCompact>>

\* ------------------------------------------------------------- _log_operation
\* aiofiles.open(log_file, "a"): the file is created when it is missing
LogOpen(t) ==
    /\ NoCall
    /\ pc[t] = "log_open"
    /\ wal' = File(wal.recs)
    /\ local' = [local EXCEPT ![t].fh = "wal"]
    /\ pc' = [pc EXCEPT ![t] = "log_write"]
    /\ UNCHANGED <<now, phase, cache, nxt, prv, facadeLock, cacheLock, dllLock,
                   tmp, stats, nsStats, res, expect, snap, lastCompact>>

\* a writer that returns without having put the record on the file
LogAppendLost(t) ==
    /\ wal' = wal
    /\ stats' = [stats EXCEPT !.log_size = @ + 1]

\* a writer that puts the record on the file twice
LogAppendTwice(t) ==
    /\ wal' = IF local[t].fh = "wal"
              THEN File(Append(Append(wal.recs, local[t].rec), local[t].rec))
              ELSE wal
    /\ stats' = [stats EXCEPT !.log_size = @ + 1]

\* write and close on the open handle, then log_size += 1.  A handle whose file
\* was renamed away in between writes to the renamed file, not to log_file.
LogAppend(t) ==
    /\ wal' = IF local[t].fh = "wal" THEN File(Append(wal.recs, local[t].rec)) ELSE wal
    /\ stats' = [stats EXCEPT !.log_size = @ + 1]

\* an append that fails and still counts the record
AppendFailsCounted(t) ==
    /\ NoCall
    /\ pc[t] \in {"log_open", "log_write"}
    /\ local[t].op \in {"set", "delete"}
    /\ stats' = [stats EXCEPT !.log_size = @ + 1]
    /\ facadeLock' = NoTask
    /\ pc' = [pc EXCEPT ![t] = "idle"]
    /\ local' = [local EXCEPT ![t] = IdleL]
    /\ res' = [res EXCEPT ![t] = [op |-> "error"]]
    /\ expect' = [expect EXCEPT ![<<local[t].ns, local[t].key>>] = Unknown]
    /\ UNCHANGED <<now, phase, cache, nxt, prv, cacheLock, dllLock, wal, tmp,
                   nsStats, snap, lastCompact>>

\* aiofiles.open or f.write raises OSError inside _log_operation, called by set
\* or delete: nothing is written and `log_size += 1` is not reached; the error
\* leaves the `async with self.lock` block, which releases the lock, skips the
\* update of namespace_stats and reaches the caller.
AppendFails(t) ==
    /\ NoCall
    /\ pc[t] \in {"log_open", "log_write"}
    /\ local[t].op \in {"set", "delete"}
    /\ facadeLock' = NoTask
    /\ pc' = [pc EXCEPT ![t] = "idle"]
    /\ local' = [local EXCEPT ![t] = IdleL]
    /\ res' = [res EXCEPT ![t] = [op |-> "error"]]
    /\ expect' = [expect EXCEPT ![<<local[t].ns, local[t].key>>] = Unknown]
    /\ UNCHANGED <<now, phase, cache, nxt, prv, cacheLock, dllLock, wal, tmp, stats,
                   nsStats, snap, lastCompact>>

\* ------------------------------------------------------------- set
SetBody(t, k, v, ttl, ns) ==
    LET fk == make_namespaced_key(ns, k)
        g  == [ttl |-> ttl, setAt |-> IF ttl = None THEN None ELSE now]
    IN  /\ facadeLock' = t
        /\ IF PutBlocks(Cur, fk)
           THEN /\ cacheLock' = t
                /\ dllLock' = t
                /\ pc' = [pc EXCEPT ![t] = "evict_wait"]
                /\ local' = [local EXCEPT ![t] =
                               [op |-> "set", key |-> k, value |-> v, ttl |-> ttl,
                                ns |-> ns, lru |-> prv[TAIL]]]
                /\ UNCHANGED <<cache, nxt, prv, expect>>
           ELSE /\ SetCache(CachePut(Cur, fk, v, Secs(ttl), g))
                /\ pc' = [pc EXCEPT ![t] = "log_open"]
                /\ local' = [local EXCEPT ![t] =
                               [op |-> "set", key |-> k, value |-> v, ttl |-> ttl,
                                ns |-> ns, fh |-> "none",
                                rec |-> LogEntry("SET", k, v, ttl, ns)]]
                /\ expect' = [expect EXCEPT ![<<ns, k>>] = Promised(v, ttl)]
                /\ UNCHANGED <<cacheLock, dllLock>>

SetBegin(t, k, v, ttl, ns) ==
    /\ Call
    /\ phase = "running"
    /\ pc[t] = "idle"
    /\ res' = [res EXCEPT ![t] = NoRes]
    /\ lastCompact' = NoCompact
    /\ IF facadeLock = NoTask
       THEN SetBody(t, k, v, ttl, ns)
       ELSE /\ pc' = [pc EXCEPT ![t] = "set_lock"]
            /\ local' = [local EXCEPT ![t] =
                           [op |-> "set", key |-> k, value |-> v, ttl |-> ttl, ns |-> ns]]
            /\ UNCHANGED <<cache, nxt, prv, facadeLock, cacheLock, dllLock, expect>>
    /\ UNCHANGED <<now, phase, wal, tmp, stats, nsStats, snap>>

SetResume(t) ==
    /\ NoCall
    /\ pc[t] = "set_lock"
    /\ facadeLock = NoTask
    /\ SetBody(t, local[t].key, local[t].value, local[t].ttl, local[t].ns)
    /\ UNCHANGED <<now, phase, wal, tmp, stats, nsStats, res, snap,
                   lastCompact>>

SetFinish(t) ==
    /\ NoCall
    /\ pc[t] = "log_write"
    /\ local[t].op = "set"
    /\ LogAppend(t)
    /\ nsStats' = [init_namespace_stats(nsStats, local[t].ns)
                     EXCEPT ![Label(local[t].ns)].total_keys = StoreSize(Cur, local[t].ns)]
    /\ facadeLock' = NoTask
    /\ pc' = [pc EXCEPT ![t] = "idle"]
    /\ local' = [local EXCEPT ![t] = IdleL]
    /\ res' = [res EXCEPT ![t] = [op |-> "set"]]
    /\ UNCHANGED <<now, phase, cache, nxt, prv, cacheLock, dllLock, tmp, expect,
                   snap, lastCompact>>

\* ------------------------------------------------------------- get
GetBody(t, k, ns) ==
    LET fk   == make_namespaced_key(ns, k)
        r    == CacheGet(Cur, fk)
        hit  == r.val # NoVal
        had  == fk \in Keys(cache)
        node == NodeOf(cache, fk)
        late == had /\ node.ttl # None /\ now > node.setAt + node.ttl * TicksPerSec
        st   == init_namespace_stats(nsStats, ns)
    IN  /\ SetCache(r.L)
        /\ stats' = IF hit THEN [stats EXCEPT !.cache_hits = @ + 1]
                           ELSE [stats EXCEPT !.cache_misses = @ + 1]
        /\ nsStats' = IF hit THEN [st EXCEPT ![Label(ns)].cache_hits = @ + 1]
                             ELSE [st EXCEPT ![Label(ns)].cache_misses = @ + 1]
        /\ pc' = [pc EXCEPT ![t] = "idle"]
        /\ local' = [local EXCEPT ![t] = IdleL]
        /\ res' = [res EXCEPT ![t] =
                     [op |-> "get", val |-> r.val,
                      expected |-> Expected(<<ns, k>>), late |-> late,
                      ttl0 |-> (had /\ node.ttl = 0)]]
        /\ UNCHANGED <<facadeLock, cacheLock, dllLock>>

GetBegin(t, k, ns) ==
    /\ Call
    /\ phase = "running"
    /\ pc[t] = "idle"
    /\ lastCompact' = NoCompact
    /\ IF facadeLock = NoTask
       THEN GetBody(t, k, ns)
       ELSE /\ pc' = [pc EXCEPT ![t] = "get_lock"]
            /\ local' = [local EXCEPT ![t] = [op |-> "get", key |-> k, ns |-> ns]]
            /\ res' = [res EXCEPT ![t] = NoRes]
            /\ UNCHANGED <<cache, nxt, prv, facadeLock, cacheLock, dllLock, stats,
                           nsStats>>
    /\ UNCHANGED <<now, phase, wal, tmp, expect, snap>>

GetResume(t) ==
    /\ NoCall
    /\ pc[t] = "get_lock"
    /\ facadeLock = NoTask
    /\ GetBody(t, local[t].key, local[t].ns)
    /\ UNCHANGED <<now, phase, wal, tmp, expect, snap, lastCompact>>

\* ------------------------------------------------------------- delete
DeleteBody(t, k, ns) ==
    LET fk == make_namespaced_key(ns, k)
    IN  /\ SetCache(CacheDelete(Cur, fk))
        /\ expect' = [expect EXCEPT ![<<ns, k>>] = Absent]
        /\ IF fk \in Keys(cache)
           THEN /\ facadeLock' = t
                /\ pc' = [pc EXCEPT ![t] = "log_open"]
                /\ local' = [local EXCEPT ![t] =
                               [op |-> "delete", key |-> k, ns |-> ns, fh |-> "none",
                                rec |-> LogEntry("DEL", k, NoVal, None, ns)]]
                /\ res' = [res EXCEPT ![t] = NoRes]
           ELSE /\ facadeLock' = NoTask
                /\ pc' = [pc EXCEPT ![t] = "idle"]
                /\ local' = [local EXCEPT ![t] = IdleL]
                /\ res' = [res EXCEPT ![t] =
                             [op |-> "delete", deleted |-> FALSE]]
        /\ UNCHANGED <<cacheLock, dllLock>>

DeleteBegin(t, k, ns) ==
    /\ Call
    /\ phase = "running"
    /\ pc[t] = "idle"
    /\ lastCompact' = NoCompact
    /\ IF facadeLock = NoTask
       THEN DeleteBody(t, k, ns)
       ELSE /\ pc' = [pc EXCEPT ![t] = "delete_lock"]
            /\ local' = [local EXCEPT ![t] = [op |-> "delete", key |-> k, ns |-> ns]]
            /\ res' = [res EXCEPT ![t] = NoRes]
            /\ UNCHANGED <<cache, nxt, prv, facadeLock, cacheLock, dllLock, expect>>
    /\ UNCHANGED <<now, phase, wal, tmp, stats, nsStats, snap>>

DeleteResume(t) ==
    /\ NoCall
    /\ pc[t] = "delete_lock"
    /\ facadeLock = NoTask
    /\ DeleteBody(t, local[t].key, local[t].ns)
    /\ UNCHANGED <<now, phase, wal, tmp, stats, nsStats, snap, lastCompact>>

DeleteFinish(t) ==
    /\ NoCall
    /\ pc[t] = "log_write"
    /\ local[t].op = "delete"
    /\ LogAppend(t)
    /\ nsStats' = [init_namespace_stats(nsStats, local[t].ns)
                     EXCEPT ![Label(local[t].ns)].total_keys = StoreSize(Cur, local[t].ns)]
    /\ facadeLock' = NoTask
    /\ pc' = [pc EXCEPT ![t] = "idle"]
    /\ local' = [local EXCEPT ![t] = IdleL]
    /\ res' = [res EXCEPT ![t] = [op |-> "delete", deleted |-> TRUE]]
    /\ UNCHANGED <<now, phase, cache, nxt, prv, cacheLock, dllLock, tmp, expect,
                   snap, lastCompact>>

\* ------------------------------------------------------------- initialize
\* _recover: one line of the file per step
Recover ==
    /\ NoCall
    /\ pc["main"] = "recover"
    /\ IF ~wal.exists \/ local["main"].idx > WalLen
       THEN /\ phase' = "recovered"
            /\ pc' = [pc EXCEPT !["main"] = "idle"]
            /\ local' = [local EXCEPT !["main"] = IdleL]
            /\ UNCHANGED <<cache, nxt, prv, cacheLock, dllLock>>
       ELSE IF NotJson(wal.recs[local["main"].idx])
       THEN \* except json.JSONDecodeError: continue
            /\ phase' = phase
            /\ local' = [local EXCEPT !["main"].idx = @ + 1]
            /\ UNCHANGED <<cache, nxt, prv, pc, cacheLock, dllLock>>
       ELSE IF NotObject(wal.recs[local["main"].idx])
       THEN \* TypeError is not among the caught exceptions: _recover and
            \* initialize() raise it
            /\ phase' = "failed"
            /\ pc' = [pc EXCEPT !["main"] = "idle"]
            /\ local' = [local EXCEPT !["main"] = IdleL]
            /\ UNCHANGED <<cache, nxt, prv, cacheLock, dllLock>>
       ELSE IF LacksField(wal.recs[local["main"].idx])
       THEN \* except KeyError: continue
            /\ phase' = phase
            /\ local' = [local EXCEPT !["main"].idx = @ + 1]
            /\ UNCHANGED <<cache, nxt, prv, pc, cacheLock, dllLock>>
       ELSE LET e   == wal.recs[local["main"].idx]
                fk  == make_namespaced_key(e.namespace, e.key)
                rem == e.ttl * TicksPerSec - (now - e.timestamp)
                g   == [ttl |-> e.ttl,
                        setAt |-> IF e.ttl = None THEN None ELSE e.timestamp]
                skip == e.action = "SET" /\ Truthy(e.ttl) /\ rem <= 0
            IN  /\ phase' = phase
                /\ IF e.action = "SET" /\ ~skip /\ PutBlocks(Cur, fk)
                   THEN /\ cacheLock' = "main"
                        /\ dllLock' = "main"
                        /\ pc' = [pc EXCEPT !["main"] = "evict_wait"]
                        /\ local' = [local EXCEPT !["main"].lru = prv[TAIL]]
                        /\ UNCHANGED <<cache, nxt, prv>>
                   ELSE /\ SetCache(IF skip THEN Cur
                                    ELSE IF e.action = "SET"
                                    THEN CachePut(Cur, fk, e.value,
                                                  IF Truthy(e.ttl) THEN rem ELSE None, g)
                                    ELSE CacheDelete(Cur, fk))
                        /\ local' = [local EXCEPT !["main"].idx = @ + 1]
                        /\ UNCHANGED <<pc, cacheLock, dllLock>>
    /\ UNCHANGED <<now, facadeLock, wal, tmp, stats, nsStats, res, expect, snap, lastCompact>>

\* the server starts to take requests
Serve ==
    /\ NoCall
    /\ phase = "recovered"
    /\ phase' = "running"
    /\ snap' = NoSnap
    /\ UNCHANGED <<now, cache, nxt, prv, facadeLock, cacheLock, dllLock, pc, local,
                   wal, tmp, stats, nsStats, res, expect, lastCompact>>

\* ------------------------------------------------------------- clear_namespace
\* One turn of the loop over the matching keys, up to the next suspension: the
\* cache.delete of the next key and the record for it, or the return.
ClearIter(t, ns, todo, count) ==
    IF todo = <<>>
    THEN /\ nsStats' = IF ns \in DOMAIN nsStats
                       THEN [nsStats EXCEPT ![ns].total_keys = 0]
                       ELSE nsStats
         /\ pc' = [pc EXCEPT ![t] = "idle"]
         /\ local' = [local EXCEPT ![t] = IdleL]
         /\ res' = [res EXCEPT ![t] = [op |-> "clear", count |-> count]]
         /\ UNCHANGED <<cache, nxt, prv>>
    ELSE IF cacheLock # NoTask
    THEN /\ pc' = [pc EXCEPT ![t] = "cache_wait"]
         /\ local' = [local EXCEPT ![t] = [op |-> "clear", ns |-> ns, todo |-> todo,
                                           count |-> count]]
         /\ UNCHANGED <<cache, nxt, prv, nsStats, res>>
    ELSE /\ SetCache(CacheDelete(Cur, Head(todo)))
         /\ pc' = [pc EXCEPT ![t] = "log_open"]
         /\ local' = [local EXCEPT ![t] =
                        [op |-> "clear", ns |-> ns, todo |-> Tail(todo),
                         count |-> count + 1, fh |-> "none",
                         rec |-> LogEntry("DEL", parse_namespaced_key(Head(todo))[2],
                                          NoVal, None, ns)]]
         /\ UNCHANGED <<nsStats, res>>

ForgetPromises(ns) ==
    [p \in DOMAIN expect |->
        IF p[1] = ns /\ expect[p].val # NoVal THEN Unknown ELSE expect[p]]

ClearBegin(t, ns) ==
    /\ Call
    /\ phase = "running"
    /\ pc[t] = "idle"
    /\ IF cacheLock # NoTask
       THEN /\ pc' = [pc EXCEPT ![t] = "cache_wait"]
            /\ local' = [local EXCEPT ![t] = [op |-> "clear", ns |-> ns]]
            /\ res' = [res EXCEPT ![t] = NoRes]
            /\ UNCHANGED <<cache, nxt, prv, nsStats, expect>>
       ELSE /\ ClearIter(t, ns,
                         SelectSeq([i \in 1..Len(cache) |-> cache[i].key],
                                   LAMBDA fk : StartsWith(fk, ns \o <<":">>)),
                         0)
            /\ expect' = ForgetPromises(ns)
    /\ lastCompact' = NoCompact
    /\ UNCHANGED <<now, phase, facadeLock, cacheLock, dllLock, wal, tmp, stats,
                   snap>>

ClearStep(t) ==
    /\ NoCall
    /\ pc[t] = "log_write"
    /\ local[t].op = "clear"
    /\ LogAppend(t)
    /\ ClearIter(t, local[t].ns, local[t].todo, local[t].count)
    /\ expect' = ForgetPromises(local[t].ns)
    /\ UNCHANGED <<now, phase, facadeLock, cacheLock, dllLock, tmp, snap,
                   lastCompact>>

\* ------------------------------------------------------------- the reaper
RECURSIVE DeleteAll(_, _)
DeleteAll(L, ks) ==
    IF ks = <<>> THEN L ELSE DeleteAll(CacheDelete(L, Head(ks)), Tail(ks))

\* a collection that takes every entry with an expiry, due or not
ExpiredKeysTimed(d) ==
    LET ex == SelectSeq(d, LAMBDA e : Truthy(e.expires_at))
    IN  [i \in 1..Len(ex) |-> ex[i].key]

\* expired_keys: `node.expires_at and current_time > node.expires_at`
ExpiredKeys(d) ==
    LET ex == SelectSeq(d, LAMBDA e : Truthy(e.expires_at) /\ now > e.expires_at)
    IN  [i \in 1..Len(ex) |-> ex[i].key]

\* _remove_expired_items: the keys are collected and then deleted; with the cache
\* lock free nothing suspends in between
Sweep ==
    /\ NoCall
    /\ cacheLock = NoTask
    /\ \E i \in 1..Len(cache) : Truthy(cache[i].expires_at)
    /\ SetCache(DeleteAll(Cur, ExpiredKeys(cache)))
    /\ UNCHANGED <<now, phase, facadeLock, cacheLock, dllLock, pc, local, wal, tmp,
                   stats, nsStats, res, expect, snap, lastCompact>>

\* ------------------------------------------------------------- compact_log
RECURSIVE RawAll(_, _, _)
\* get_raw of every key: [L |-> the cache afterwards, state |-> current_state]
RawAll(L, ks, acc) ==
    IF ks = <<>>
    THEN [L |-> L, state |-> acc]
    ELSE LET r == CacheGetRaw(L, Head(ks))
         IN  RawAll(r.L, Tail(ks),
                    IF r.val = NoVal THEN acc
                    ELSE Append(acc, [key |-> Head(ks), value |-> r.val,
                                      expires_at |-> NodeOf(L.d, Head(ks)).expires_at]))

Max(a, b) == IF a >= b THEN a ELSE b

\* max(0, int(expires_at - time.time())), in seconds
RemainingSecs(expires_at) == Max(0, (expires_at - now) \div TicksPerSec)

Skipped(e) == Truthy(e.expires_at) /\ RemainingSecs(e.expires_at) <= 0

RECURSIVE DropSkipped(_)
DropSkipped(state) ==
    IF state = <<>> \/ ~Skipped(Head(state)) THEN state ELSE DropSkipped(Tail(state))

CompactEntry(e) ==
    LET p == parse_namespaced_key(e.key)
    IN  [timestamp |-> Stamp(e.expires_at), action |-> "SET", key |-> p[2],
         value |-> e.value,
         ttl |-> IF Truthy(e.expires_at) THEN RemainingSecs(e.expires_at) ELSE None,
         namespace |-> p[1]]

CompactBody(t) ==
    LET r == RawAll(Cur, [i \in 1..Len(cache) |-> cache[i].key], <<>>)
    IN  /\ facadeLock' = t
        /\ SetCache(r.L)
        /\ pc' = [pc EXCEPT ![t] = "compact_open"]
        /\ local' = [local EXCEPT ![t] = [op |-> "compact", state |-> r.state,
                                          at |-> now]]

CompactBegin(t) ==
    /\ Call
    /\ phase = "running"
    /\ pc[t] = "idle"
    /\ wal.exists
    /\ res' = [res EXCEPT ![t] = NoRes]
    /\ IF facadeLock = NoTask
       THEN CompactBody(t)
       ELSE /\ pc' = [pc EXCEPT ![t] = "compact_lock"]
            /\ local' = [local EXCEPT ![t] = [op |-> "compact"]]
            /\ UNCHANGED <<cache, nxt, prv, facadeLock>>
    /\ UNCHANGED <<now, phase, cacheLock, dllLock, wal, tmp, stats, nsStats, expect,
                   snap, lastCompact>>

CompactResume(t) ==
    /\ NoCall
    /\ pc[t] = "compact_lock"
    /\ facadeLock = NoTask
    /\ CompactBody(t)
    /\ UNCHANGED <<now, phase, cacheLock, dllLock, wal, tmp, stats, nsStats, res,
                   expect, snap, lastCompact>>

\* a compaction that rewrites the log in place: it opens log_file itself with "w"
CompactOpenInPlace(t) ==
    /\ NoCall
    /\ pc[t] = "compact_open"
    /\ wal' = File(<<>>)
    /\ pc' = [pc EXCEPT ![t] = "compact_write"]
    /\ UNCHANGED <<now, phase, cache, nxt, prv, facadeLock, cacheLock, dllLock, local,
                   tmp, stats, nsStats, res, expect, snap, lastCompact>>

\* aiofiles.open(temp_file, "w")
CompactOpen(t) ==
    /\ NoCall
    /\ pc[t] = "compact_open"
    /\ tmp' = File(<<>>)
    /\ pc' = [pc EXCEPT ![t] = "compact_write"]
    /\ UNCHANGED <<now, phase, cache, nxt, prv, facadeLock, cacheLock, dllLock, local,
                   wal, stats, nsStats, res, expect, snap, lastCompact>>

\* the loop over current_state up to the next write, or to the close of the file
CompactWrite(t) ==
    /\ NoCall
    /\ pc[t] = "compact_write"
    /\ LET todo == DropSkipped(local[t].state)
       IN  IF todo = <<>>
           THEN /\ pc' = [pc EXCEPT ![t] = "compact_rename"]
                /\ local' = [local EXCEPT ![t].state = <<>>]
                /\ tmp' = tmp
           ELSE /\ tmp' = File(Append(tmp.recs, CompactEntry(Head(todo))))
                /\ local' = [local EXCEPT ![t].state = Tail(todo)]
                /\ pc' = pc
    /\ UNCHANGED <<now, phase, cache, nxt, prv, facadeLock, cacheLock, dllLock, wal,
                   stats, nsStats, res, expect, snap, lastCompact>>

\* os.rename(log_file, backup_file); os.rename(temp_file, log_file): a handle open
\* on the old log follows it to the backup path
CompactRename(t) ==
    /\ NoCall
    /\ pc[t] = "compact_rename"
    /\ wal' = tmp
    /\ tmp' = NoFile
    /\ stats' = [stats EXCEPT !.last_compaction = "set"]
    /\ local' = [u \in Tasks |->
                   IF local[u].op \in {"set", "delete", "clear"} /\ pc[u] = "log_write"
                   THEN [local[u] EXCEPT !.fh = "backup"]
                   ELSE local[u]]
    /\ pc' = [pc EXCEPT ![t] = "compact_count"]
    /\ UNCHANGED <<now, phase, cache, nxt, prv, facadeLock, cacheLock, dllLock,
                   nsStats, res, expect, snap, lastCompact>>

RecSet(f) == {<<f.recs[i].action, f.recs[i].key, f.recs[i].namespace, f.recs[i].value>> :
                 i \in 1..Len(f.recs)}

\* the lines of the new log are counted; log_size = new_size
CompactCount(t) ==
    /\ NoCall
    /\ pc[t] = "compact_count"
    /\ stats' = [stats EXCEPT !.log_size = Len(wal.recs)]
    /\ facadeLock' = NoTask
    /\ pc' = [pc EXCEPT ![t] = "idle"]
    /\ local' = [local EXCEPT ![t] = IdleL]
    /\ res' = [res EXCEPT ![t] = [op |-> "compact"]]
    /\ lastCompact' =
         [valid |-> /\ \A u \in Tasks \ {t} : pc[u] = "idle"
                    /\ \A i \in 1..Len(cache) : ~is_expired(cache[i]),
          recs  |-> RecSet(wal),
          exps  |-> {cache[i].expires_at : i \in {j \in 1..Len(cache) :
                                                     cache[j].expires_at # None}}]
    /\ UNCHANGED <<now, phase, cache, nxt, prv, cacheLock, dllLock, wal, tmp, nsStats,
                   expect, snap>>

\* ------------------------------------------------------------- shutdown, restart
\* A graceful shutdown with no call in flight, and the start of the next process
\* on the same files: __init__ of the store and of the cache, then initialize().
Restart ==
    /\ Call
    /\ phase = "running"
    /\ \A t \in Tasks : pc[t] = "idle"
    /\ phase' = "recovering"
    /\ SetCache(EmptyCache)
    /\ pc' = [t \in Tasks |-> IF t = "main" THEN "recover" ELSE "idle"]
    /\ local' = [t \in Tasks |-> IF t = "main" THEN [op |-> "recover", idx |-> 1] ELSE IdleL]
    /\ stats' = [cache_hits |-> 0, cache_misses |-> 0, evictions |-> 0,
                 log_size |-> 0, last_compaction |-> NoVal]
    /\ nsStats' = <<>>
    /\ res' = [t \in Tasks |-> NoRes]
    /\ expect' = [p \in DOMAIN expect |-> Unknown]
    /\ snap' = [valid |-> TRUE, at |-> now,
                edge |-> \E i \in 1..Len(cache) : cache[i].expires_at = now,
                m |-> {<<cache[i].key, cache[i].value>> :
                          i \in {j \in 1..Len(cache) : ~is_expired(cache[j])}}]
    /\ lastCompact' = NoCompact
    /\ UNCHANGED <<now, facadeLock, cacheLock, dllLock, wal, tmp>>

\* shutdown() with no call in flight: the event is set and the compaction task is
\* cancelled and awaited.  The cache's cleanup_task is not touched.
Shutdown ==
    /\ Call
    /\ phase = "running"
    /\ \A t \in Tasks : pc[t] = "idle"
    /\ phase' = "stopped"
    /\ res' = [t \in Tasks |-> NoRes]
    /\ lastCompact' = NoCompact
    /\ UNCHANGED <<now, cache, nxt, prv, facadeLock, cacheLock, dllLock, pc, local,
                   wal, tmp, stats, nsStats, expect, snap>>

\* shutdown() while compact_log is suspended: compaction_task.cancel() raises
\* CancelledError at the await the task is at; the `async with` blocks release
\* the lock and close the file, _compaction_loop catches the error and ends, and
\* shutdown() returns.  What compact_log had not yet done stays undone.
ShutdownCancels(t) ==
    /\ Call
    /\ phase = "running"
    /\ pc[t] \in {"compact_lock", "compact_open", "compact_write", "compact_rename",
                  "compact_count"}
    /\ \A u \in Tasks \ {t} : pc[u] = "idle"
    /\ phase' = "stopped"
    /\ pc' = [pc EXCEPT ![t] = "idle"]
    /\ local' = [local EXCEPT ![t] = IdleL]
    /\ facadeLock' = IF facadeLock = t THEN NoTask ELSE facadeLock
    /\ res' = [u \in Tasks |-> NoRes]
    /\ lastCompact' = NoCompact
    /\ UNCHANGED <<now, cache, nxt, prv, cacheLock, dllLock, wal, tmp, stats, nsStats,
                   expect, snap>>

\* while the store is down, one malformed line gets to the end of the file
Corrupt ==
    /\ NoCall
    /\ phase = "stopped"
    /\ \A i \in 1..Len(wal.recs) : wal.recs[i] \notin MalformedLines
    /\ \E l \in MalformedLines : wal' = File(Append(wal.recs, l))
    /\ UNCHANGED <<now, phase, cache, nxt, prv, facadeLock, cacheLock, dllLock, pc,
                   local, tmp, stats, nsStats, res, expect, snap, lastCompact>>

\* the next process on the same files: __init__ of the store and of the cache,
\* then initialize()
Start ==
    /\ NoCall
    /\ phase = "stopped"
    /\ phase' = "recovering"
    /\ SetCache(EmptyCache)
    /\ pc' = [t \in Tasks |-> IF t = "main" THEN "recover" ELSE "idle"]
    /\ local' = [t \in Tasks |-> IF t = "main" THEN [op |-> "recover", idx |-> 1] ELSE IdleL]
    /\ stats' = [cache_hits |-> 0, cache_misses |-> 0, evictions |-> 0,
                 log_size |-> 0, last_compaction |-> NoVal]
    /\ nsStats' = <<>>
    /\ expect' = [p \in DOMAIN expect |-> Unknown]
    /\ UNCHANGED <<now, facadeLock, cacheLock, dllLock, wal, tmp, res, snap,
                   lastCompact>>

\* The process is killed, at any place where a coroutine is suspended, and the
\* next process starts on the files as they are: every task, lock and handle of
\* the old process is gone.
Crash ==
    /\ Call
    /\ phase = "running"
    /\ phase' = "recovering"
    /\ SetCache(EmptyCache)
    /\ facadeLock' = NoTask
    /\ cacheLock' = NoTask
    /\ dllLock' = NoTask
    /\ pc' = [t \in Tasks |-> IF t = "main" THEN "recover" ELSE "idle"]
    /\ local' = [t \in Tasks |-> IF t = "main" THEN [op |-> "recover", idx |-> 1] ELSE IdleL]
    /\ stats' = [cache_hits |-> 0, cache_misses |-> 0, evictions |-> 0,
                 log_size |-> 0, last_compaction |-> NoVal]
    /\ nsStats' = <<>>
    /\ res' = [t \in Tasks |-> NoRes]
    /\ expect' = [p \in DOMAIN expect |-> Unknown]
    /\ snap' = NoSnap
    /\ lastCompact' = NoCompact
    /\ UNCHANGED <<now, wal, tmp>>

\* The process is killed inside compact_log after os.rename(log_file, backup_file)
\* and before os.rename(temp_file, log_file): the old log is at the backup path,
\* the new one still at the temporary path, and nothing is at log_file.
CrashBetweenRenames(t) ==
    /\ Call
    /\ phase = "running"
    /\ pc[t] = "compact_rename"
    /\ wal' = NoFile
    /\ phase' = "recovering"
    /\ SetCache(EmptyCache)
    /\ facadeLock' = NoTask
    /\ cacheLock' = NoTask
    /\ dllLock' = NoTask
    /\ pc' = [u \in Tasks |-> IF u = "main" THEN "recover" ELSE "idle"]
    /\ local' = [u \in Tasks |-> IF u = "main" THEN [op |-> "recover", idx |-> 1] ELSE IdleL]
    /\ stats' = [cache_hits |-> 0, cache_misses |-> 0, evictions |-> 0,
                 log_size |-> 0, last_compaction |-> NoVal]
    /\ nsStats' = <<>>
    /\ res' = [u \in Tasks |-> NoRes]
    /\ expect' = [p \in DOMAIN expect |-> Unknown]
    /\ snap' = NoSnap
    /\ lastCompact' = NoCompact
    /\ UNCHANGED <<now, tmp>>

\* ------------------------------------------------------------- size
\* size(namespace) as a call of its own: it takes the cache lock only
SizeCall(t, ns) ==
    /\ Call
    /\ phase = "running"
    /\ pc[t] = "idle"
    /\ IF cacheLock = NoTask
       THEN /\ res' = [res EXCEPT ![t] = [op |-> "size", count |-> StoreSize(Cur, ns)]]
            /\ UNCHANGED <<pc, local>>
       ELSE /\ pc' = [pc EXCEPT ![t] = "cache_wait"]
            /\ local' = [local EXCEPT ![t] = [op |-> "size", ns |-> ns]]
            /\ res' = [res EXCEPT ![t] = NoRes]
    /\ UNCHANGED <<now, phase, cache, nxt, prv, facadeLock, cacheLock, dllLock, wal,
                   tmp, stats, nsStats, expect, snap, lastCompact>>

\* ------------------------------------------------------------- list_namespaces
\* ord() of the characters in use
CharCode == (":" :> 58) @@ ("a" :> 97) @@ ("b" :> 98) @@ ("c" :> 99)

RECURSIVE StrLess(_, _)
\* s < t on Python strings
StrLess(s, t) ==
    IF t = <<>> THEN FALSE
    ELSE IF s = <<>> THEN TRUE
    ELSE IF Head(s) # Head(t) THEN CharCode[Head(s)] < CharCode[Head(t)]
    ELSE StrLess(Tail(s), Tail(t))

RECURSIVE Sorted(_)
\* sorted(list(S))
Sorted(S) ==
    IF S = {} THEN <<>>
    ELSE LET m == CHOOSE x \in S : \A y \in S \ {x} : StrLess(x, y)
         IN  <<m>> \o Sorted(S \ {m})

\* the set that list_namespaces collects from the full keys: the part before the
\* first ':' of every key that has one, when it is not empty
NamespacesIn(d) ==
    {parse_namespaced_key(d[i].key)[1] :
        i \in {j \in 1..Len(d) : /\ ":" \in Range(d[j].key)
                                 /\ parse_namespaced_key(d[j].key)[1] # <<>>}}

\* list_namespaces as a call of its own: it takes the cache lock only
ListCall(t) ==
    /\ Call
    /\ phase = "running"
    /\ pc[t] = "idle"
    /\ IF cacheLock = NoTask
       THEN /\ res' = [res EXCEPT ![t] = [op |-> "list",
                                          names |-> Sorted(NamespacesIn(cache))]]
            /\ UNCHANGED <<pc, local>>
       ELSE /\ pc' = [pc EXCEPT ![t] = "cache_wait"]
            /\ local' = [local EXCEPT ![t] = [op |-> "list"]]
            /\ res' = [res EXCEPT ![t] = NoRes]
    /\ UNCHANGED <<now, phase, cache, nxt, prv, facadeLock, cacheLock, dllLock, wal,
                   tmp, stats, nsStats, expect, snap, lastCompact>>

\* ------------------------------------------------------------- specifications
ClientOps(C, K, N, V, T) ==
    \E t \in C :
        \/ \E k \in K, ns \in N, v \in V, ttl \in T : SetBegin(t, k, v, ttl, ns)
        \/ \E k \in K, ns \in N : GetBegin(t, k, ns)
        \/ \E k \in K, ns \in N : DeleteBegin(t, k, ns)
        \/ SetResume(t) \/ GetResume(t) \/ DeleteResume(t)
        \/ LogOpen(t) \/ SetFinish(t) \/ DeleteFinish(t)

ClearOps(C, N) ==
    \E t \in C :
        \/ \E ns \in N : ClearBegin(t, ns)
        \/ ClearStep(t)

CompactOps(t) ==
    \/ CompactBegin(t) \/ CompactResume(t) \/ CompactOpen(t)
    \/ CompactWrite(t) \/ CompactRename(t) \/ CompactCount(t)

Background ==
    \/ CompactOps("compactor")
    \/ Sweep
    \/ Restart
    \/ Recover
    \/ Serve
    \/ Tick

\* every operation; one client, four full keys, entries with and without TTL
Next ==
    \/ ClientOps({"c1"}, {<<"a">>, <<"b">>}, {NoNs, <<"a">>}, {"v1"}, {None, 1})
    \/ ClearOps({"c1"}, {<<"a">>})
    \/ Background

Spec == Init /\ [][Next]_vars

\* two clients; the pairs (a, b) and (None, a:b) flatten to the same full key
NextNs ==
    \/ ClientOps(Clients, UserKeys, Namespaces, Values, {None})
    \/ ClearOps(Clients, {<<"a">>})
    \/ Recover
    \/ Serve

SpecNs == Init /\ [][NextNs]_vars

\* one client, every TTL, two values
NextTtl ==
    \/ ClientOps({"c1"}, {<<"b">>}, Namespaces, Values, Ttls)
    \/ ClearOps({"c1"}, {<<"a">>})
    \/ Background

SpecTtl == Init /\ [][NextTtl]_vars

\* two clients on three keys, under the scheduling of the event loop: a task that
\* can run is run (WF), and a lock that is released again and again is handed to
\* each waiter (asyncio.Lock wakes its waiters in FIFO order: SF)
NextFair ==
    \/ ClientOps(Clients, PlainKeys, {NoNs}, {"v1"}, {None})
    \/ \E t \in Clients : SizeCall(t, NoNs)
    \/ Recover
    \/ Serve

Fairness ==
    /\ WF_vars(Recover)
    /\ WF_vars(Serve)
    /\ \A t \in Clients :
          /\ SF_vars(SetResume(t))
          /\ SF_vars(GetResume(t))
          /\ SF_vars(DeleteResume(t))
          /\ WF_vars(LogOpen(t))
          /\ WF_vars(SetFinish(t))
          /\ WF_vars(DeleteFinish(t))

FairSpec == Init /\ [][NextFair]_vars /\ Fairness

\* two clients, one key without ':', three namespaces of which one contains ':'
NextIso ==
    \/ ClientOps(Clients, {<<"b">>}, AllNamespaces, {"v1"}, {None})
    \/ ClearOps(Clients, AllNamespaces \ {NoNs})
    \/ Recover
    \/ Serve

SpecIso == Init /\ [][NextIso]_vars

\* two clients, two full keys, no TTL; compaction and restart
NextLog ==
    \/ ClientOps(Clients, {<<"b">>}, Namespaces, {"v1"}, {None})
    \/ ClearOps(Clients, {<<"a">>})
    \/ CompactOps("compactor")
    \/ Restart
    \/ Recover
    \/ Serve

SpecLog == Init /\ [][NextLog]_vars

\* one client, one key with and without TTL; shutdown, damage to the file while
\* the store is down, and the next start
NextStop ==
    \/ ClientOps({"c1"}, {<<"b">>}, {NoNs}, {"v1"}, {None, 1})
    \/ CompactOps("compactor")
    \/ Shutdown
    \/ Corrupt
    \/ Start
    \/ Sweep
    \/ Recover
    \/ Serve
    \/ Tick

SpecStop == Init /\ [][NextStop]_vars

\* one client, three keys of the default namespace with and without TTL, and all
\* background activity
NextLru ==
    \/ ClientOps({"c1"}, PlainKeys, {NoNs}, {"v1"}, {None, 1})
    \/ Background

SpecLru == Init /\ [][NextLru]_vars

\* one client that sets two keys to two values, with and without TTL, and the
\* reaper; nothing else takes the store lock
NextPut ==
    \/ \E k \in {<<"a">>, <<"b">>}, v \in Values, ttl \in {None, 1} :
          SetBegin("c1", k, v, ttl, NoNs)
    \/ LogOpen("c1")
    \/ SetFinish("c1")
    \/ Sweep
    \/ Recover
    \/ Serve
    \/ Tick

SpecPut == Init /\ [][NextPut]_vars

\* one client, one key in two namespaces, with and without TTL, and all
\* background activity
NextGet ==
    \/ ClientOps({"c1"}, {<<"b">>}, Namespaces, {"v1"}, {None, 1})
    \/ Background

SpecGet == Init /\ [][NextGet]_vars

\* recovery from a WAL found at the start
NextFound ==
    \/ Recover
    \/ Serve

SpecFound == InitFound /\ [][NextFound]_vars

\* one client, two full keys, with and without TTL; compaction, and the death of
\* the process at any place, between the two renames of compact_log included
NextCrash ==
    \/ ClientOps({"c1"}, {<<"b">>}, Namespaces, {"v1"}, {None, 1})
    \/ CompactOps("compactor")
    \/ Crash
    \/ CrashBetweenRenames("compactor")
    \/ Recover
    \/ Serve
    \/ Tick

SpecCrash == Init /\ [][NextCrash]_vars

\* one client whose set, delete and clear_namespace meet nothing but the
\* compaction task: two full keys, two values, no TTL
NextRace ==
    \/ ClientOps({"c1"}, {<<"b">>}, Namespaces, Values, {None})
    \/ ClearOps({"c1"}, {<<"a">>})
    \/ CompactOps("compactor")
    \/ Recover
    \/ Serve

SpecRace == Init /\ [][NextRace]_vars

\* one client, one key with and without TTL; compaction, and a shutdown that
\* finds the compaction task at rest or at work
NextCancel ==
    \/ ClientOps({"c1"}, {<<"b">>}, {NoNs}, {"v1"}, {None, 1})
    \/ CompactOps("compactor")
    \/ Shutdown
    \/ ShutdownCancels("compactor")
    \/ Start
    \/ Recover
    \/ Serve
    \/ Tick

SpecCancel == Init /\ [][NextCancel]_vars

\* one client, two full keys, two values, no TTL; appends that fail; compaction
NextFail ==
    \/ ClientOps({"c1"}, {<<"b">>}, Namespaces, Values, {None})
    \/ AppendFails("c1")
    \/ CompactOps("compactor")
    \/ Recover
    \/ Serve

SpecFail == Init /\ [][NextFail]_vars

\* the namespaces of the size and list_namespaces runs: none, 'a' and 'c'
SizeNamespaces == {NoNs, <<"a">>, <<"c">>}

\* one client that sets and deletes one key in three namespaces, with and
\* without TTL, and asks for sizes and for the list of namespaces; the reaper
NextSize ==
    \/ \E ns \in SizeNamespaces, ttl \in {None, 1} : SetBegin("c1", <<"b">>, "v1", ttl, ns)
    \/ \E ns \in SizeNamespaces : DeleteBegin("c1", <<"b">>, ns)
    \/ LogOpen("c1")
    \/ SetFinish("c1")
    \/ DeleteFinish("c1")
    \/ \E ns \in SizeNamespaces : SizeCall("c1", ns)
    \/ ListCall("c1")
    \/ Sweep
    \/ Recover
    \/ Serve
    \/ Tick

SpecSize == Init /\ [][NextSize]_vars

\* ------------------------------------------------------------- claims

\* C1: after any sequence of set, get, delete, clear_namespace, sweeps and
\* compactions, and after recovery, the cache holds at most Capacity entries.
C1_SizeAtMostCapacity == Len(cache) <= Capacity

\* a put of a new key has arrived at a full cache
C1_Witness == \E t \in Tasks : pc[t] = "evict_wait" /\ Len(cache) = Capacity

\* C2: under fair scheduling every set, get, delete and size call returns,
\* also a set of a new key issued when the cache is full.
C2_EveryCallReturns ==
    \A t \in Clients :
        (local[t].op \in {"set", "get", "delete", "size"}) ~> (pc[t] = "idle")

\* C3: a set of a new key into a full cache returns with exactly the least
\* recently used entry removed: that key is gone and the cache is full again.
C3_EvictsLeastRecentlyUsed ==
    \A t \in Clients : \A k \in PlainKeys :
        (pc[t] = "evict_wait" /\ local[t].lru = k)
            ~> (pc[t] = "idle" /\ k \notin Keys(cache) /\ Len(cache) = Capacity)

\* C4: a get of (k, ns) returns the value of the last set(k, v, ns) when no
\* delete(k, ns), clear_namespace(ns) or expiry of k came after that set.
C4_ReadYourWrites ==
    \A t \in Clients :
        res[t].op = "get" /\ res[t].expected \in Values => res[t].val = res[t].expected

\* C5: after delete(k, ns) has returned, a get of (k, ns) returns absent until
\* the next set(k, ..., ns).
C5_DeletedStaysAbsent ==
    \A t \in Clients :
        res[t].op = "get" /\ res[t].expected = NoVal => res[t].val = NoVal

\* C6: a get issued strictly after T0 + t never returns the value of an entry
\* set with TTL t at T0.
C6_NoReadPastExpiry ==
    \A t \in Clients : res[t].op = "get" /\ res[t].late => res[t].val = NoVal

\* C7: an entry set with ttl = 0 is absent for every later get.
C7_ZeroTtlExpiresAtOnce ==
    \A t \in Clients :
        res[t].op = "get" /\ res[t].ttl0 /\ res[t].late => res[t].val = NoVal

\* C8: after shutdown and recovery (no time passing in between, and no entry
\* expiring at that very instant) the store holds exactly the entries that were
\* live and unexpired at shutdown, with their values.
C8_RoundTrip ==
    (phase = "recovered" /\ snap.valid /\ ~snap.edge /\ now = snap.at)
        => {<<cache[i].key, cache[i].value>> : i \in 1..Len(cache)} = snap.m

Live == {i \in 1..Len(cache) : ~is_expired(cache[i])}

WalIsLiveSet ==
    /\ wal.exists
    /\ \A i \in 1..Len(wal.recs) : wal.recs[i].action = "SET"
    /\ Len(wal.recs) = Cardinality(Live)
    /\ {<<make_namespaced_key(wal.recs[i].namespace, wal.recs[i].key), wal.recs[i].value>> :
           i \in 1..Len(wal.recs)}
         = {<<cache[i].key, cache[i].value>> : i \in Live}

\* C9: when compact_log returns (no time having passed since it started), the WAL
\* holds exactly one SET record for each live unexpired entry of the cache and no
\* DEL record.
C9_CompactedWalIsLiveSet ==
    [][(/\ pc["compactor"] = "compact_count"
        /\ pc'["compactor"] = "idle"
        /\ local["compactor"].at = now)
          => WalIsLiveSet']_vars

\* C10: a compaction that follows another with no call and no TTL expiry in
\* between (and runs with no time passing) leaves the same records, timestamps
\* and TTLs aside.
C10_CompactionIdempotent ==
    [][(/\ pc["compactor"] = "compact_count"
        /\ pc'["compactor"] = "idle"
        /\ local["compactor"].at = now
        /\ lastCompact.valid
        /\ \A x \in lastCompact.exps : now <= x)
          => RecSet(wal') = lastCompact.recs]_vars

\* what get(k, ns) would return from the cache L
GetResult(L, ns, k) == CacheGet(L, make_namespaced_key(ns, k)).val

\* the step in which task t applies a mutation of set, delete or clear_namespace
\* to the cache: each of them goes on to write its record
Mutates(t) == pc[t] # "log_open" /\ pc'[t] = "log_open"

\* C11: for keys without ':' and ns1 # ns2, a set, delete or clear_namespace on
\* (k, ns1) does not change what get(k, ns2) returns.
C11_NamespaceIsolation ==
    [][\A t \in Clients :
          Mutates(t) =>
             \A ns2 \in AllNamespaces \ {local'[t].ns} :
                \A k \in (IF local'[t].op = "clear" THEN PlainKeys
                                                    ELSE {local'[t].key} \cap PlainKeys) :
                   GetResult(Cur', ns2, k) = GetResult(Cur, ns2, k)]_vars

\* the last line of the file at log_file is rec, and it was appended in this step
Appended(rec) ==
    /\ wal'.exists
    /\ wal'.recs = Append(wal.recs, rec)

\* C12: a delete that finds the full key removes it, appends exactly one DEL
\* record and returns true; a delete that does not find it returns false and
\* leaves the WAL, the cache and the counters as they are; when a delete has
\* returned true the key is gone, so that the next delete finds nothing.
C12_DeleteContract ==
    [][\A t \in Clients :
          /\ \A k \in UserKeys \cup PlainKeys : \A ns \in AllNamespaces :
                LET fk == make_namespaced_key(ns, k)
                IN  (/\ \/ DeleteBegin(t, k, ns)
                        \/ DeleteResume(t) /\ local[t].key = k /\ local[t].ns = ns
                     /\ pc'[t] # "delete_lock")
                       => IF fk \in Keys(cache)
                          THEN /\ fk \notin Keys(cache')
                               /\ pc'[t] = "log_open"
                               /\ local'[t].rec.action = "DEL"
                               /\ local'[t].rec.key = k
                               /\ local'[t].rec.namespace = ns
                               /\ wal' = wal
                          ELSE /\ res'[t] = [op |-> "delete", deleted |-> FALSE]
                               /\ pc'[t] = "idle"
                               /\ UNCHANGED <<cache, nxt, prv, wal, stats, nsStats>>
          /\ DeleteFinish(t)
                => /\ res'[t] = [op |-> "delete", deleted |-> TRUE]
                   /\ Appended(local[t].rec)
                   /\ make_namespaced_key(local[t].ns, local[t].key) \notin Keys(cache')]_vars

\* a delete has found its key and returned true
C12_Witness ==
    \E t \in Clients :
        /\ res[t] = [op |-> "delete", deleted |-> TRUE]
        /\ wal.exists /\ Len(wal.recs) > 0
        /\ wal.recs[Len(wal.recs)].action = "DEL"

\* the full key a WAL record is about, as _recover computes it
FullKey(rec) == make_namespaced_key(rec.namespace, rec.key)

\* the positions of the records of the WAL for the full key fk
RecordsOf(fk) == {i \in 1..Len(wal.recs) : FullKey(wal.recs[i]) = fk}

LastRecordOf(fk) == wal.recs[CHOOSE i \in RecordsOf(fk) : \A j \in RecordsOf(fk) : j <= i]

\* no operation is in progress
Quiescent == phase = "running" /\ \A t \in Tasks : pc[t] = "idle"

\* C13: the records are in the WAL in the order in which their mutations were
\* applied to the cache: when no operation is in progress, the last record of
\* every full key is a SET with the cached value if the key is in the cache, and
\* a DEL (or there is none) if it is not.
C13_WalOrderIsCommitOrder ==
    Quiescent =>
       \A fk \in Keys(cache) \cup {FullKey(wal.recs[i]) : i \in 1..Len(wal.recs)} :
          IF fk \in Keys(cache)
          THEN /\ RecordsOf(fk) # {}
               /\ LastRecordOf(fk).action = "SET"
               /\ LastRecordOf(fk).value = NodeOf(cache, fk).value
          ELSE LastRecordOf(fk).action = "DEL"

\* task t is between the start and the end of an operation's body (a task that
\* still waits for the facade lock has not started it)
InBody(t) ==
    pc[t] \in {"log_open", "log_write", "evict_wait", "cache_wait", "compact_open",
               "compact_write", "compact_rename", "compact_count"}

\* C14: the facade lock gives mutual exclusion over all public operations and
\* background task bodies: at no time are two tasks inside a body.
C14_FacadeMutualExclusion == Cardinality({t \in Tasks : InBody(t)}) <= 1

\* task t returns from a set, or from a delete that found its key
Acknowledged(t) ==
    /\ pc[t] # "idle"
    /\ pc'[t] = "idle"
    /\ \/ res'[t].op = "set"
       \/ res'[t].op = "delete" /\ res'[t].deleted

IsPrefix(s1, s2) == Len(s1) <= Len(s2) /\ SubSeq(s2, 1, Len(s1)) = s1

\* the step in which compact_log puts the rewritten file in the place of the WAL
Supersedes == pc["compactor"] = "compact_rename" /\ pc'["compactor"] # "compact_rename"

\* C15: when a set or a successful delete returns, its record is in the WAL; and
\* a record once in the WAL stays there, a graceful shutdown and restart included,
\* until a compaction replaces the file.
C15_AckAfterAppend ==
    [][/\ \A t \in Clients :
             Acknowledged(t) =>
                /\ wal'.exists
                /\ \E i \in 1..Len(wal'.recs) : wal'.recs[i] = local[t].rec
       /\ ~Supersedes => IsPrefix(wal.recs, wal'.recs)]_vars

\* a set has returned and its record is the last line of the WAL
C15_Witness ==
    \E t \in Clients :
        /\ res[t].op = "set"
        /\ pc[t] = "idle"
        /\ wal.exists /\ Len(wal.recs) > 0
        /\ wal.recs[Len(wal.recs)].action = "SET"

C17_RecoveryLastRecordWins ==
    phase = "recovered" =>
       \A fk \in Keys(cache) \cup {FullKey(wal.recs[i]) : i \in 1..Len(wal.recs)} :
          /\ RecordsOf(fk) # {}
          /\ LET r == LastRecordOf(fk)
             IN  IF r.action = "DEL"
                 THEN fk \notin Keys(cache)
                 ELSE /\ ~Truthy(r.ttl) => fk \in Keys(cache)
                      /\ fk \in Keys(cache) => NodeOf(cache, fk).value = r.value

\* C18: clear_namespace counts an entry, and writes a DEL record for it, only
\* when it has removed that entry: in the step in which it raises its count and
\* prepares the record, one entry with the prefix ns + ':' leaves the cache.
C18_ClearCountsRemovals ==
    [][\A t \in Clients :
          (Mutates(t) /\ local'[t].op = "clear")
             => \E fk \in Keys(cache) :
                   /\ StartsWith(fk, local'[t].ns \o <<":">>)
                   /\ Keys(cache') = Keys(cache) \ {fk}]_vars

\* C19: once shutdown has returned, neither background task runs again: as long
\* as the store is down no sweep changes the cache and the compactor does not
\* leave its rest.
C19_ShutdownStopsBackground ==
    [][(phase = "stopped" /\ phase' = "stopped")
          => /\ UNCHANGED <<cache, nxt, prv>>
             /\ pc'["compactor"] = "idle"]_vars

\* C20: recovery skips every malformed line and goes on with the next one: the
\* step of _recover that reads a malformed line leaves the cache as it is, moves
\* to the next line and does not end initialize() with an error.
C20_RecoverySkipsMalformed ==
    [][(/\ pc["main"] = "recover"
        /\ wal.exists
        /\ local["main"].idx <= WalLen
        /\ wal.recs[local["main"].idx] \in MalformedLines
        /\ pc' # pc \/ local' # local \/ phase' # phase)
          => /\ phase' # "failed"
             /\ pc'["main"] = "recover"
             /\ local'["main"].idx = local["main"].idx + 1
             /\ UNCHANGED <<cache, nxt, prv>>]_vars

RECURSIVE ListFrom(_, _)
\* the nodes met from n on along the next pointers, up to the tail sentinel (at
\* most fuel of them)
ListFrom(n, fuel) ==
    IF n = TAIL \/ fuel = 0 \/ n \notin DOMAIN nxt
    THEN <<>>
    ELSE <<n>> \o ListFrom(nxt[n], fuel - 1)

\* the list from head.next on
LruOrder == ListFrom(nxt[HEAD], Len(cache) + 1)

\* C21: the dict and the list hold the same entries: the walk from head to tail
\* meets every key of the dict exactly once and nothing else, and prev is the
\* inverse of next along it.
C21_DictAndListAgree ==
    /\ Cardinality(Keys(cache)) = Len(cache)
    /\ Len(LruOrder) = Len(cache)
    /\ Range(LruOrder) = Keys(cache)
    /\ \A n \in Range(LruOrder) \cup {HEAD} :
          /\ n \in DOMAIN nxt
          /\ nxt[n] \in DOMAIN prv
          /\ prv[nxt[n]] = n
    /\ prv[TAIL] = (IF cache = <<>> THEN HEAD ELSE LruOrder[Len(LruOrder)])

\* two entries are in the cache, and the one set first has been moved to the head
C21_Witness ==
    /\ Len(cache) = 2
    /\ nxt[HEAD] = cache[1].key

\* task t waits for the list lock inside remove_node, called by remove_from_end
WaitsForListLock(t) == pc[t] = "evict_wait"

\* C22: no task waits for a lock that it holds itself.
C22_NoLockTakenTwice == \A t \in Tasks : ~(WaitsForListLock(t) /\ dllLock = t)

\* the step in which task t runs the body of get(k, ns)
GetRuns(t, k, ns) ==
    /\ \/ GetBegin(t, k, ns)
       \/ GetResume(t) /\ local[t].key = k /\ local[t].ns = ns
    /\ pc'[t] = "idle"

\* C23: a get that finds its key in the cache with expires_at passed takes the
\* entry out in the same step in which it makes the check: it returns absent,
\* the key is gone from dict and list, size() is one less, and the WAL is not
\* written.
C23_ExpiredReadRemoves ==
    [][\A t \in Clients : \A k \in PlainKeys : \A ns \in Namespaces :
          LET fk == make_namespaced_key(ns, k)
          IN  (/\ GetRuns(t, k, ns)
               /\ fk \in Keys(cache)
               /\ is_expired(NodeOf(cache, fk)))
                 => /\ res'[t].op = "get"
                    /\ res'[t].val = NoVal
                    /\ Keys(cache') = Keys(cache) \ {fk}
                    /\ fk \notin DOMAIN nxt' /\ fk \notin DOMAIN prv'
                    /\ StoreSize(Cur', NoNs) = StoreSize(Cur, NoNs) - 1
                    /\ wal' = wal
                    /\ local'[t] = IdleL]_vars

\* a get has found its key expired: it returned absent, the cache is empty and
\* the WAL holds the SET alone
C23_Witness ==
    \E t \in Clients :
        /\ res[t].op = "get"
        /\ res[t].late
        /\ res[t].val = NoVal
        /\ cache = <<>>
        /\ wal.exists /\ Len(wal.recs) = 1
        /\ wal.recs[1].action = "SET"

\* the step in which task t runs the cache.put of a set; the call is in local'[t]
SetRuns(t) ==
    /\ pc[t] \in {"idle", "set_lock"}
    /\ pc'[t] \in {"log_open", "evict_wait"}
    /\ local'[t].op = "set"

\* C24: a set on a key that is in the cache overwrites the value and the expiry
\* (none when the set has no ttl, now + ttl for a ttl of a second or more),
\* moves the entry to the head and leaves every other entry, their order and
\* the size as they are; it does not wait for an eviction, full cache or not.
C24_OverwriteInPlace ==
    [][\A t \in Clients :
          LET a  == local'[t]
              fk == make_namespaced_key(a.ns, a.key)
          IN  (SetRuns(t) /\ fk \in Keys(cache))
                 => /\ pc'[t] = "log_open"
                    /\ Len(cache') = Len(cache)
                    /\ Keys(cache') = Keys(cache)
                    /\ NodeOf(cache', fk).value = a.value
                    /\ a.ttl = None => NodeOf(cache', fk).expires_at = None
                    /\ Truthy(a.ttl) => NodeOf(cache', fk).expires_at = now + Secs(a.ttl)
                    /\ \A i \in 1..Len(cache) : cache[i].key # fk => cache'[i] = cache[i]
                    /\ LruOrder' = <<fk>> \o SelectSeq(LruOrder, LAMBDA n : n # fk)]_vars

\* the cache is full; the entry set first, with a TTL and the value v1, has been
\* set again without TTL to v2 and is at the head
C24_Witness ==
    /\ Len(cache) = Capacity
    /\ nxt[HEAD] = cache[1].key
    /\ cache[1].value = "v2"
    /\ cache[1].expires_at = None
    /\ wal.exists /\ Len(wal.recs) >= 1
    /\ wal.recs[1].key = cache[1].key
    /\ wal.recs[1].value = "v1"
    /\ wal.recs[1].ttl = 1

\* C25: a set that has to evict the tail for capacity returns with the evictions
\* counter one higher than it found it.
C25_EvictionsCounted ==
    \A t \in Clients : \A n \in 0..MaxOps :
        (pc[t] = "evict_wait" /\ stats.evictions = n)
            ~> (pc[t] = "idle" /\ stats.evictions = n + 1)

RECURSIVE SumOver(_, _)
\* the sum of the counter c over the namespace buckets named in D
SumOver(D, c) ==
    IF D = {} THEN 0
    ELSE LET n == CHOOSE m \in D : TRUE
         IN  nsStats[n][c] + SumOver(D \ {n}, c)

\* the global hit and miss counters are the sums of the buckets
SumsAgree ==
    /\ stats.cache_hits = SumOver(DOMAIN nsStats, "cache_hits")
    /\ stats.cache_misses = SumOver(DOMAIN nsStats, "cache_misses")

\* C26: a get adds one to cache_hits when it returns a value and one to
\* cache_misses when it returns absent, in the global counters and in the bucket
\* of its namespace ('default' for none), and changes no other hit or miss
\* counter; nothing but a get changes a hit or miss counter within one process
\* (the next process starts from zero), and the global counters are the sums of
\* the buckets at all times.
C26_HitsAndMisses ==
    [][/\ SumsAgree'
       /\ \A t \in Clients : \A k \in PlainKeys \cup UserKeys : \A ns \in AllNamespaces :
             GetRuns(t, k, ns) =>
                LET hit == res'[t].val # NoVal
                    b   == Label(ns)
                    old(c) == IF b \in DOMAIN nsStats THEN nsStats[b][c] ELSE 0
                IN  /\ stats'.cache_hits = stats.cache_hits + (IF hit THEN 1 ELSE 0)
                    /\ stats'.cache_misses = stats.cache_misses + (IF hit THEN 0 ELSE 1)
                    /\ nsStats'[b].cache_hits = old("cache_hits") + (IF hit THEN 1 ELSE 0)
                    /\ nsStats'[b].cache_misses = old("cache_misses") + (IF hit THEN 0 ELSE 1)
                    /\ \A n \in DOMAIN nsStats \ {b} :
                          /\ nsStats'[n].cache_hits = nsStats[n].cache_hits
                          /\ nsStats'[n].cache_misses = nsStats[n].cache_misses
       /\ (stats'.cache_hits # stats.cache_hits \/ stats'.cache_misses # stats.cache_misses)
             => \/ \E t \in Clients : \E k \in PlainKeys \cup UserKeys :
                      \E ns \in AllNamespaces : GetRuns(t, k, ns)
                \/ phase' = "recovering" /\ stats'.cache_hits = 0 /\ stats'.cache_misses = 0]_vars

\* gets of two namespaces have returned: a hit in one and a miss in the other
C26_Witness ==
    /\ stats.cache_hits = 1
    /\ stats.cache_misses = 1
    /\ Cardinality(DOMAIN nsStats) = 2
    /\ \E n \in DOMAIN nsStats : nsStats[n].cache_hits = 1 /\ nsStats[n].cache_misses = 0

\* the step in which _recover handles the line it is at
RecoverStep ==
    /\ pc["main"] = "recover"
    /\ wal.exists
    /\ local["main"].idx <= WalLen
    /\ pc' # pc \/ local' # local \/ phase' # phase

\* C27: recovery honours the elapsed TTL: a SET record with a ttl is skipped
\* when remaining = ttl - (now - timestamp) is <= 0, and otherwise its entry is
\* inserted with the record's value and expires remaining from now.
C27_RecoveryHonoursTtl ==
    [][LET e   == wal.recs[local["main"].idx]
           rem == e.ttl * TicksPerSec - (now - e.timestamp)
           fk  == FullKey(e)
       IN  (/\ RecoverStep
            /\ e \notin MalformedLines
            /\ e.action = "SET"
            /\ e.ttl # None)
              => IF rem <= 0
                 THEN UNCHANGED <<cache, nxt, prv>>
                 ELSE /\ fk \in Keys(cache')
                      /\ NodeOf(cache', fk).value = e.value
                      /\ NodeOf(cache', fk).expires_at = now + rem]_vars

RECURSIVE LatestFirst(_, _)
\* the full keys of the SET lines recs, the key of the last line first, each key
\* once at the place of its last line
LatestFirst(recs, seen) ==
    IF recs = <<>> THEN <<>>
    ELSE LET e  == recs[Len(recs)]
             fk == FullKey(e)
             rest == SubSeq(recs, 1, Len(recs) - 1)
         IN  IF fk \in seen THEN LatestFirst(rest, seen)
             ELSE <<fk>> \o LatestFirst(rest, seen \cup {fk})

\* the first n elements of s, or all of s
Take(s, n) == SubSeq(s, 1, IF Len(s) < n THEN Len(s) ELSE n)

\* C28: recovery from a WAL of SET records ends, also when the WAL holds more
\* keys than the capacity, and leaves the keys in the order of their last
\* records, the latest at the head, cut to the capacity.
C28_RecoveredOrder ==
    /\ pc["main"] # "evict_wait"
    /\ phase = "recovered" => LruOrder = Take(LatestFirst(wal.recs, {}), Capacity)

\* C29: once this process has compacted the log, and with no operation in
\* progress, log_size is the number of records of the WAL.
C29_LogSizeIsWalLength ==
    (Quiescent /\ stats.last_compaction # NoVal) => stats.log_size = Len(wal.recs)

\* a step of compact_log, run by the compaction task
CompactorStep ==
    /\ phase' = phase
    /\ pc'["compactor"] # pc["compactor"] \/ local'["compactor"] # local["compactor"]

\* no step of compact_log changes a hit or miss counter
CountersKept ==
    /\ stats'.cache_hits = stats.cache_hits
    /\ stats'.cache_misses = stats.cache_misses
    /\ DOMAIN nsStats' = DOMAIN nsStats
    /\ \A n \in DOMAIN nsStats :
          /\ nsStats'[n].cache_hits = nsStats[n].cache_hits
          /\ nsStats'[n].cache_misses = nsStats[n].cache_misses

\* C30: compaction leaves the cache as it is: no step of compact_log changes the
\* entries present, their values, their expiry instants, their LRU order or a
\* hit or miss counter.
C30_CompactionLeavesCache ==
    [][CompactorStep => UNCHANGED <<cache, nxt, prv>> /\ CountersKept]_vars

\* C30, amended: a step of compact_log takes out of the cache nothing but entries
\* whose expiry has passed; the entries that stay keep their values, their
\* expiry instants and their LRU order, and no hit or miss counter changes.
C30_CompactionKeepsLiveEntries ==
    [][CompactorStep =>
          /\ \A i \in 1..Len(cache) :
                cache[i].key \notin Keys(cache') => is_expired(cache[i])
          /\ cache' = SelectSeq(cache, LAMBDA e : e.key \in Keys(cache'))
          /\ LruOrder' = SelectSeq(LruOrder, LAMBDA n : n \in Keys(cache'))
          /\ CountersKept]_vars

\* compact_log has read a cache of two entries, the one set last at the head
C30_Witness ==
    /\ pc["compactor"] = "compact_open"
    /\ Len(cache) = 2
    /\ Len(local["compactor"].state) = 2
    /\ nxt[HEAD] = cache[2].key

\* the process ends in this step and the next one starts
ProcessEnds == phase = "running" /\ phase' = "recovering"

C32_NoMutationLostToCompaction ==
    (Quiescent /\ stats.last_compaction # NoVal) =>
       \A fk \in Keys(cache) \cup {FullKey(wal.recs[i]) : i \in 1..Len(wal.recs)} :
          IF fk \in Keys(cache)
          THEN /\ RecordsOf(fk) # {}
               /\ LastRecordOf(fk).action = "SET"
               /\ LastRecordOf(fk).value = NodeOf(cache, fk).value
          ELSE RecordsOf(fk) = {} \/ LastRecordOf(fk).action = "DEL"

\* a step of the reaper that removes something: nothing but the cache changes
SweepRuns ==
    /\ cache' # cache
    /\ UNCHANGED <<now, phase, pc, local, stats, nsStats, res, wal, tmp>>

\* C33: a TTL sweep removes every entry whose expiry is before the sweep time and
\* no other entry.  Collection and removal are one step of the event loop (the
\* cache lock is free in between and nothing suspends), so that no set comes
\* between them: what is removed is expired at the moment of its removal, and the
\* entries that stay keep their order.
C33_SweepRemovesExpiredOnly ==
    [][SweepRuns =>
          /\ cache' = SelectSeq(cache, LAMBDA e : ~is_expired(e))
          /\ LruOrder' = SelectSeq(LruOrder, LAMBDA n : n \in Keys(cache'))]_vars

\* a sweep has taken out the entry whose TTL had run out and left one whose TTL
\* has not: both were set, and nothing but a sweep removes an entry here
C33_Witness ==
    /\ Len(cache) = 1
    /\ cache[1].expires_at # None
    /\ ~is_expired(cache[1])
    /\ wal.exists /\ Len(wal.recs) = 2
    /\ wal.recs[1].key # wal.recs[2].key
    /\ \A t \in Tasks : pc[t] = "idle"

\* C34: recovery is over before a client operation is served, and neither
\* background task runs before or during the replay of the WAL: while
\* initialize() runs, no operation of a client starts, no sweep removes an entry
\* and the compaction task stays at rest.
C34_NoBackgroundDuringRecovery ==
    [][phase = "recovering" =>
          /\ ~SweepRuns
          /\ pc'["compactor"] = "idle"
          /\ \A t \in Clients : pc'[t] = "idle" /\ res'[t] = res[t]]_vars

\* C35: shutdown does not abandon a compaction part-way: when shutdown has
\* returned, no temporary file is left, the compaction task holds no lock, and a
\* compaction that set last_compaction also set log_size to the length of the
\* log it put in place (to which every later record added one).
C35_CompactionRunsToCompletion ==
    phase = "stopped" =>
       /\ ~tmp.exists
       /\ facadeLock = NoTask
       /\ stats.last_compaction # NoVal => stats.log_size = Len(wal.recs)

\* the step in which the append of task t's set or delete fails
Raises(t) ==
    /\ pc[t] \in {"log_open", "log_write"}
    /\ pc'[t] = "idle"
    /\ res'[t].op = "error"

\* C36: when the append of a set or delete fails, the caller gets the error, the
\* facade lock is free again, log_size and the WAL's records are as before, and
\* the change made to the cache before the append stays: the key of a set is in
\* the cache with the new value, the key of a delete is not in the cache.
C36_AppendFailureLeavesMemoryAhead ==
    [][\A t \in Clients :
          Raises(t) =>
             LET fk == make_namespaced_key(local[t].ns, local[t].key)
             IN  /\ facadeLock = t
                 /\ facadeLock' = NoTask
                 /\ stats'.log_size = stats.log_size
                 /\ wal'.recs = wal.recs
                 /\ UNCHANGED <<cache, nxt, prv, nsStats>>
                 /\ local[t].op = "set"
                       => fk \in Keys(cache') /\ NodeOf(cache', fk).value = local[t].value
                 /\ local[t].op = "delete" => fk \notin Keys(cache')]_vars

\* the append of a set failed, and a later get has returned the value that the
\* WAL has no record of
C36_Witness ==
    \E t \in Clients :
        /\ res[t].op = "get"
        /\ res[t].val \in Values
        /\ \A i \in 1..Len(wal.recs) : wal.recs[i].value # res[t].val

\* the entries of the cache that belong to the namespace ns (NoNs: the entries
\* stored without a namespace)
EntriesOf(d, ns) ==
    {i \in 1..Len(d) : parse_namespaced_key(d[i].key)[1] = ns}

\* C37: when a set or a successful delete on (k, ns) returns, total_keys of the
\* bucket of ns is the number of entries that belong to ns; for the bucket
\* 'default' that is the number of entries stored without a namespace.
C37_TotalKeysPerNamespace ==
    [][\A t \in Clients :
          Acknowledged(t) =>
             /\ Label(local[t].ns) \in DOMAIN nsStats'
             /\ nsStats'[Label(local[t].ns)].total_keys
                  = Cardinality(EntriesOf(cache', local[t].ns))]_vars

\* the unexpired entries that were set under the namespace ns with a key
\* without ':' (NoNs: without a namespace)
LiveUnder(d, ns) ==
    {i \in 1..Len(d) : /\ ~is_expired(d[i])
                       /\ \E k \in PlainKeys : d[i].key = make_namespaced_key(ns, k)}

DeleteRuns(t, k, ns) ==
    /\ \/ DeleteBegin(t, k, ns)
       \/ DeleteResume(t) /\ local[t].key = k /\ local[t].ns = ns
    /\ pc'[t] # "delete_lock"

\* C39: a delete of a key that is still in the cache with its TTL run out is a
\* not-found: it returns false and writes no record, as a delete of a key that
\* is not there.
C39_DeleteOfExpiredIsNotFound ==
    [][\A t \in Clients : \A k \in PlainKeys : \A ns \in Namespaces :
          LET fk == make_namespaced_key(ns, k)
          IN  (/\ DeleteRuns(t, k, ns)
               /\ fk \in Keys(cache)
               /\ is_expired(NodeOf(cache, fk)))
                 => /\ pc'[t] = "idle"
                    /\ res'[t] = [op |-> "delete", deleted |-> FALSE]]_vars

====
